---- MODULE Spec2Model ----
(***************************************************************************)
(* A model of the PE backend of cle (cle/backends/pe.py) and of the        *)
(* Loader's placement of objects (exercised by tests/test_overlap.py).     *)
(*                                                                         *)
(* Five independent parts share this module, each with its own             *)
(* specification:                                                          *)
(*   SpecPlace   - PE construction (sections) and Loader.add_object        *)
(*   SpecReloc   - WinReloc.relocate on base relocations (memory patches)  *)
(*   SpecResolve - WinReloc.resolve_symbol / value on import relocations   *)
(*   SpecScan    - PE._handle_relocs, the scan of a base-relocation block  *)
(*   SpecTls     - PE._register_tls_callbacks                              *)
(***************************************************************************)
EXTENDS Integers, Sequences, FiniteSets, TLC

VARIABLES
    all_objects,    \* Loader.all_objects: the placed objects, in insertion order
    owner_obj,      \* the object base relocations belong to: its two bases
    memory,         \* owner_obj.memory: the image, one byte per RVA
    applied,        \* the base relocations relocate() has been called on, in order
    solist,         \* the candidate objects handed to resolve_symbol, in order
    reloc,          \* an import relocation (WinReloc with a symbol)
    calls,          \* the bypass_compatibility flags of the resolve_symbol calls so far
    table,          \* DIRECTORY_ENTRY_BASERELOC: the blocks, each a sequence of entries
    block_idx,      \* the block _handle_relocs is in (1-based; past the end when done)
    entry_idx,      \* entry_idx of _handle_relocs (0-based, as in the code)
    relocs,         \* self.relocs as _handle_relocs fills it
    warned,         \* 'PE contains corrupt relocation table' was logged
    tls,            \* the TLS callback array and the image around it
    tls_pc,         \* where _register_tls_callbacks is
    callback_rva,   \* its local callback_rva
    callback,       \* its local callback
    callbacks,      \* its local callbacks, the list it returns
    reads           \* the RVAs it has passed to get_dword_at_rva

placeVars == <<all_objects>>
relocVars == <<owner_obj, memory, applied>>
resolveVars == <<solist, reloc, calls>>
scanVars == <<table, block_idx, entry_idx, relocs, warned>>
tlsVars == <<tls, tls_pc, callback_rva, callback, callbacks, reads>>
vars ==
    <<all_objects, owner_obj, memory, applied, solist, reloc, calls,
      table, block_idx, entry_idx, relocs, warned,
      tls, tls_pc, callback_rva, callback, callbacks, reads>>

\* The state of a part that a specification does not exercise.
IdlePlace == all_objects = <<>>
IdleReloc == owner_obj = <<>> /\ memory = <<>> /\ applied = <<>>
IdleResolve == solist = <<>> /\ reloc = <<>> /\ calls = <<>>
IdleScan ==
    /\ table = <<>> /\ block_idx = 1 /\ entry_idx = 0 /\ relocs = <<>> /\ warned = FALSE
IdleTls ==
    /\ tls = <<>> /\ tls_pc = "idle" /\ callback_rva = 0 /\ callback = 0
    /\ callbacks = <<>> /\ reads = {}

\* Python's None where an object may stand: an optional value is the empty
\* tuple or the value in a tuple of one.  NoName is None where a name may
\* stand.
None == <<>>
Some(x) == <<x>>
NoName == "None"

(***************************************************************************)
(* Part 1: placement.  Addresses are counted in pages.                     *)
(***************************************************************************)
MaxBase == 2        \* link bases are drawn from 0..MaxBase
MaxSize == 2        \* image sizes are drawn from 1..MaxSize
MaxObjects == 3     \* the Loader holds at most this many objects

\* PESection.__init__: the section's virtual address is the raw
\* VirtualAddress plus remap_offset.
PESection(VirtualAddress, remap_offset) ==
    [VirtualAddress |-> VirtualAddress, vaddr |-> VirtualAddress + remap_offset]

\* PE._register_sections: every raw section is wrapped with
\* remap_offset = self.linked_base.
RegisterSectionsUnmapped(raw, linked_base) ==
    [i \in 1..Len(raw) |-> PESection(raw[i], 0)]

register_sections(raw, linked_base) ==
    [i \in 1..Len(raw) |-> PESection(raw[i], linked_base)]

\* PE.__init__ (the part placement reads): mapped_base = linked_base =
\* ImageBase, then the sections are registered.  size is the image extent
\* (MockBackend.size in the test).
PE_init(ImageBase, size, raw) ==
    [linked_base |-> ImageBase,
     mapped_base |-> ImageBase,
     size        |-> size,
     sections    |-> register_sections(raw, ImageBase)]

\* MockBackend.get_max_addr
GetMaxAddrNoSize(o) == o.mapped_base

GetMaxAddrAtLinkBase(o) == o.linked_base + o.size

get_max_addr(o) == o.mapped_base + o.size

SetMax(S) == CHOOSE m \in S : \A x \in S : x <= m

\* Step 2 of add_object: does [desired, desired+extent) meet the range of an
\* already placed object?
conflict(desired, extent, placed) ==
    \E i \in 1..Len(placed) :
        /\ desired < get_max_addr(placed[i])
        /\ placed[i].mapped_base < desired + extent

\* Steps 3 and 4 of add_object: the base the new object gets.
choose_base(obj, placed) ==
    IF conflict(obj.linked_base, obj.size, placed)
    THEN SetMax({get_max_addr(placed[i]) : i \in 1..Len(placed)})
    ELSE obj.linked_base

\* Loader.add_object(obj): the object is given its base and appended; the
\* objects placed before are left as they are.
add_object(obj) ==
    /\ Len(all_objects) < MaxObjects
    /\ all_objects' = Append(all_objects,
                             [obj EXCEPT !.mapped_base = choose_base(obj, all_objects)])
    /\ UNCHANGED <<relocVars, resolveVars, scanVars, tlsVars>>

\* The objects a caller may construct: a PE image with one section, on its
\* first or on its last page.
Objects ==
    UNION { { PE_init(b, s, <<va>>) : va \in {0, s - 1} } : b \in 0..MaxBase, s \in 1..MaxSize }

InitPlace ==
    /\ \E main \in Objects : all_objects = <<main>>
    /\ IdleReloc
    /\ IdleResolve
    /\ IdleScan
    /\ IdleTls

NextPlace == \E obj \in Objects : add_object(obj)

SpecPlace == InitPlace /\ [][NextPlace]_vars

\* The addresses object number i of the Loader occupies.
Range(i) ==
    all_objects[i].mapped_base .. (all_objects[i].mapped_base + all_objects[i].size - 1)

\* The addresses object number i asked for: its image at its link base.
Wanted(i) ==
    all_objects[i].linked_base .. (all_objects[i].linked_base + all_objects[i].size - 1)

Displaced(i) == all_objects[i].mapped_base # all_objects[i].linked_base

\* C1: after every add_object, no address belongs to the ranges
\* [mapped_base, mapped_base + extent) of two placed objects.
NoOverlap ==
    \A i \in 1..Len(all_objects) : \A j \in 1..Len(all_objects) :
        i # j => Range(i) \cap Range(j) = {}

\* C1 witness: a full Loader in which a conflict was resolved by displacement.
NoOverlapWitness ==
    /\ Len(all_objects) = MaxObjects
    /\ \E i \in 1..Len(all_objects) : Displaced(i)

\* C2: an object whose link range meets no range placed before it (displaced
\* objects counted where they were put) sits at its link base; any other
\* object sits strictly above its link base and at or above the end of every
\* object placed before it.
PlacementRule ==
    \A i \in 2..Len(all_objects) :
        IF \A j \in 1..(i - 1) : Wanted(i) \cap Range(j) = {}
        THEN all_objects[i].mapped_base = all_objects[i].linked_base
        ELSE /\ all_objects[i].mapped_base > all_objects[i].linked_base
             /\ \A j \in 1..(i - 1) :
                    all_objects[i].mapped_base >= all_objects[j].mapped_base + all_objects[j].size

\* C2 witness: the scenario of test_overlap.  The second object is displaced
\* above the main object; the third, linked at the very same base, fits below
\* the main object and keeps its link base.
PlacementRuleWitness ==
    /\ Len(all_objects) = 3
    /\ Displaced(2)
    /\ all_objects[2].mapped_base > all_objects[1].linked_base
    /\ all_objects[3].linked_base = all_objects[2].linked_base
    /\ ~Displaced(3)

MaxAddr == 1        \* relocation sites are drawn from the RVAs 0..MaxAddr
MaxRelocs == 2      \* relocate() is called at most this many times

IMAGE_REL_BASED_ABSOLUTE == 0
IMAGE_REL_BASED_HIGHLOW == 3
IMAGE_REL_BASED_HIGHADJ == 4
IMAGE_REL_BASED_DIR64 == 10

\* Type codes relocate() has no branch for (HIGH and an unassigned one).
OtherTypes == {1, 11}

RelocTypes ==
    {IMAGE_REL_BASED_ABSOLUTE, IMAGE_REL_BASED_HIGHLOW, IMAGE_REL_BASED_HIGHADJ,
     IMAGE_REL_BASED_DIR64} \cup OtherTypes

Limb == 256 * 256
Byte == 2 ^ 8

\* The image holds one 8-byte word that every relocation site 0..MaxAddr can
\* read in full.
MemSize == MaxAddr + 8

\* memory.read_bytes(addr, n)
read_bytes(mem, addr, n) == [k \in 1..n |-> mem[addr + k - 1]]

\* memory.write_bytes(addr, bytes)
write_bytes(mem, addr, bytes) ==
    [a \in DOMAIN mem |->
        IF a >= addr /\ a < addr + Len(bytes) THEN bytes[a - addr + 1] ELSE mem[a]]

\* struct.unpack('<I', b)[0] and struct.unpack('<Q', b)[0]
unpack_I(b) == <<b[1] + Byte * b[2], b[3] + Byte * b[4], 0, 0>>

unpack_Q(b) ==
    <<b[1] + Byte * b[2], b[3] + Byte * b[4], b[5] + Byte * b[6], b[7] + Byte * b[8]>>

\* struct.pack('<I', v) and struct.pack('<Q', v) of a number in range
pack_I(v) == <<v[1] % Byte, v[1] \div Byte, v[2] % Byte, v[2] \div Byte>>

pack_Q(v) ==
    <<v[1] % Byte, v[1] \div Byte, v[2] % Byte, v[2] \div Byte,
      v[3] % Byte, v[3] \div Byte, v[4] % Byte, v[4] \div Byte>>

\* The carry out of limb i of  a - b + c  (0 out of "limb 0").
RECURSIVE CarryOut(_, _, _, _)
CarryOut(a, b, c, i) ==
    IF i = 0 THEN 0
    ELSE LET t == a[i] - b[i] + c[i] + CarryOut(a, b, c, i - 1)
         IN  (t - (t % Limb)) \div Limb

\* a - b + c on unbounded integers
SubAdd(a, b, c) ==
    [limbs |-> [i \in 1..4 |-> (a[i] - b[i] + c[i] + CarryOut(a, b, c, i - 1)) % Limb],
     carry |-> CarryOut(a, b, c, 4)]

\* AT.from_lva(lva, obj).to_mva()
lva_to_mva(lva, obj) == SubAdd(lva, obj.linked_base, obj.mapped_base)

\* AT.from_rva(rva, obj).to_mva()
rva_to_mva(rva, obj) == SubAdd(rva, <<0, 0, 0, 0>>, obj.mapped_base)

\* n % 2**32
Mod32(n) == <<n.limbs[1], n.limbs[2], 0, 0>>

\* The HIGHLOW branch of relocate: the 4-byte word at the site is read as an
\* LVA, translated to an MVA and written back modulo 2^32.
HighlowAsRva(mem, obj, r) ==
    LET org_value == unpack_I(read_bytes(mem, r.addr, 4))
        rebased_value == rva_to_mva(org_value, obj)
    IN  write_bytes(mem, r.addr, pack_I(Mod32(rebased_value)))

relocate_highlow(mem, obj, r) ==
    LET org_value == unpack_I(read_bytes(mem, r.addr, 4))
        rebased_value == lva_to_mva(org_value, obj)
    IN  write_bytes(mem, r.addr, pack_I(Mod32(rebased_value)))

\* The DIR64 branch of relocate: the same on 8 bytes, without the modulo.
\* struct.pack('<Q', v) raises for v outside 0..2^64-1, before anything is
\* written.
relocate_dir64(mem, obj, r) ==
    LET org_value == unpack_Q(read_bytes(mem, r.addr, 8))
        rebased_value == lva_to_mva(org_value, obj)
    IN  IF rebased_value.carry = 0
        THEN write_bytes(mem, r.addr, pack_Q(rebased_value.limbs))
        ELSE mem

\* The memory after WinReloc.relocate on a relocation without symbol.
RelocateGuessingHighadj(mem, obj, r) ==
    IF r.reloc_type \in {IMAGE_REL_BASED_HIGHLOW, IMAGE_REL_BASED_HIGHADJ}
    THEN relocate_highlow(mem, obj, r)
    ELSE IF r.reloc_type = IMAGE_REL_BASED_DIR64
    THEN relocate_dir64(mem, obj, r)
    ELSE mem

relocate_base(mem, obj, r) ==
    IF r.reloc_type = IMAGE_REL_BASED_ABSOLUTE
    THEN mem
    ELSE IF r.reloc_type = IMAGE_REL_BASED_HIGHLOW
    THEN relocate_highlow(mem, obj, r)
    ELSE IF r.reloc_type = IMAGE_REL_BASED_DIR64
    THEN relocate_dir64(mem, obj, r)
    ELSE mem

\* WinReloc.relocate(solist) with self.symbol None
relocate(r) ==
    /\ Len(applied) < MaxRelocs
    /\ memory' = relocate_base(memory, owner_obj, r)
    /\ applied' = Append(applied, r)
    /\ UNCHANGED <<owner_obj, placeVars, resolveVars, scanVars, tlsVars>>

\* Image bases: 0, 0x00400000, 0x10000000, 0xFFFF0000 and 0x1_4000_0000.
Bases ==
    { <<0, 0, 0, 0>>, <<0, 64, 0, 0>>, <<0, 4096, 0, 0>>, <<0, 65535, 0, 0>>,
      <<0, 16384, 1, 0>> }

\* The word the image starts with: 0, 0x00401000, 0x80000000, 0xFFFFFFFF,
\* 0x1_4000_1000 and 0x89ABCDEF_12345678.
Words ==
    { <<0, 0, 0, 0>>, <<4096, 64, 0, 0>>, <<0, 32768, 0, 0>>, <<65535, 65535, 0, 0>>,
      <<4096, 16384, 1, 0>>, <<22136, 4660, 52719, 35243>> }

\* The image: the word, then bytes that tell the addresses apart.
Image(word) ==
    [a \in 0..(MemSize - 1) |-> IF a < 8 THEN pack_Q(word)[a + 1] ELSE 255 - a]

InitReloc ==
    /\ \E lb \in Bases, mb \in Bases :
          owner_obj = [linked_base |-> lb, mapped_base |-> mb]
    /\ \E w \in Words : memory = Image(w)
    /\ applied = <<>>
    /\ IdlePlace
    /\ IdleResolve
    /\ IdleScan
    /\ IdleTls

NextReloc ==
    \E t \in RelocTypes, a \in 0..MaxAddr : relocate([reloc_type |-> t, addr |-> a])

SpecReloc == InitReloc /\ [][NextReloc]_vars

\* Byte k (1..4) of the low 32 bits of a number.
LowByte(n, k) == pack_I(n)[k]

\* The carry out of byte k of  mapped_base + (V - linked_base), computed on
\* the bytes of the three numbers.
RECURSIVE ByteCarry(_, _)
ByteCarry(x, k) ==
    IF k = 0 THEN 0
    ELSE LET t == LowByte(owner_obj.mapped_base, k) + memory[x + k - 1]
                  - LowByte(owner_obj.linked_base, k) + ByteCarry(x, k - 1)
         IN  (t - (t % Byte)) \div Byte

\* Byte k of (mapped_base + (V - linked_base)) mod 2^32, V being the
\* little-endian value of memory[x .. x+3].
RebasedByte(x, k) ==
    (LowByte(owner_obj.mapped_base, k) + memory[x + k - 1]
        - LowByte(owner_obj.linked_base, k) + ByteCarry(x, k - 1)) % Byte

\* The step is a relocate() call, and this is its relocation.
Relocated == Len(applied') = Len(applied) + 1
ThisReloc == applied'[Len(applied')]

\* C4: a HIGHLOW relocation at RVA x leaves in memory[x .. x+3] the
\* little-endian bytes of (mapped_base + (V - linked_base)) mod 2^32, V being
\* the value those bytes encoded before.
HighlowPatch ==
    [][(Relocated /\ ThisReloc.reloc_type = IMAGE_REL_BASED_HIGHLOW)
        => \A k \in 1..4 : memory'[ThisReloc.addr + k - 1] = RebasedByte(ThisReloc.addr, k)]_vars

\* C4 witness: a HIGHLOW relocation was applied whose sum wrapped past 2^32:
\* the object is linked at 0x00400000 and mapped at 0x10000000, the word was
\* 0xFFFFFFFF and is now 0x0FBFFFFF.
HighlowPatchWitness ==
    /\ Len(applied) = 1
    /\ applied[1].reloc_type = IMAGE_REL_BASED_HIGHLOW
    /\ applied[1].addr = 0
    /\ owner_obj.linked_base = <<0, 64, 0, 0>>
    /\ owner_obj.mapped_base = <<0, 4096, 0, 0>>
    /\ read_bytes(memory, 0, 8) = <<255, 255, 191, 15, 0, 0, 0, 0>>

\* C7: relocate() on a base relocation of any kind but HIGHLOW and DIR64
\* leaves every byte of the image as it was.
OtherKindsPatchNothing ==
    [][(Relocated /\ ThisReloc.reloc_type \notin {IMAGE_REL_BASED_HIGHLOW, IMAGE_REL_BASED_DIR64})
        => memory' = memory]_vars

\* C7 witness: ABSOLUTE, HIGHADJ and unrecognized relocations were applied to
\* an object mapped away from its link base.
OtherKindsPatchNothingWitness ==
    /\ Len(applied) = MaxRelocs
    /\ \E i \in 1..Len(applied) : applied[i].reloc_type = IMAGE_REL_BASED_HIGHADJ
    /\ \E i \in 1..Len(applied) : applied[i].reloc_type \in OtherTypes
    /\ owner_obj.linked_base # owner_obj.mapped_base

(***************************************************************************)
(* Part 3: import relocations, WinReloc.resolve_symbol and WinReloc.value. *)
(***************************************************************************)
MaxCandidates == 2  \* resolve_symbol is handed at most this many objects
MaxResolves == 2    \* resolve_symbol is called at most this many times

Names == {"f", "g"}
Dlls == {"lib.dll", "other.dll"}

\* The export tables a candidate may have (PE._exports: name -> RVA).
ExportTables ==
    { <<>>,
      [n \in {"f"} |-> <<16, 0, 0, 0>>],
      [n \in {"f"} |-> <<48, 0, 0, 0>>],
      [n \in {"g"} |-> <<32, 0, 0, 0>>],
      [n \in Names |-> IF n = "f" THEN <<16, 0, 0, 0>> ELSE <<32, 0, 0, 0>>] }

\* Every PE here is linked at the default base 0x00400000; the importer stays
\* there and candidate number i has been mapped at (i + 1) * 0x00400000.
DefaultBase == <<0, 64, 0, 0>>
CandidateBase(i) == <<0, 64 * (i + 1), 0, 0>>

\* PE.provides: the file's basename, or None for the main binary.
Provides == Dlls \cup {NoName}

Candidate(i, provides, exports) ==
    [provides |-> provides, linked_base |-> DefaultBase,
     mapped_base |-> CandidateBase(i), exports |-> exports]

\* A sequence of n candidate objects
RECURSIVE Solists(_)
Solists(n) ==
    IF n = 0 THEN {<<>>}
    ELSE { Append(sl, Candidate(n, p, e)) : sl \in Solists(n - 1), p \in Provides,
                                             e \in ExportTables }

\* PE.get_symbol(name): the export of that name, or None.  A symbol is
\* written as its owner (the position in sl), its name and its RVA.
get_symbol(sl, i, name) ==
    IF name \in DOMAIN sl[i].exports
    THEN Some([owner |-> i, name |-> name, addr |-> sl[i].exports[name]])
    ELSE None

\* PE._handle_imports: the relocation of an import of `name` from `dll`.
WinReloc(name, dll) ==
    [name |-> name, resolvewith |-> dll, state |-> "unresolved", resolvedby |-> None]

\* Relocation.resolve_symbol(solist): exact-name lookup in each candidate in
\* order, the first export found resolves the relocation; the relocation
\* fails when there is none.  `idx` are the positions in sl still to search.
RECURSIVE base_resolve_symbol(_, _, _)
base_resolve_symbol(r, sl, idx) ==
    IF idx = <<>>
    THEN [r EXCEPT !.state = "failed", !.resolvedby = None]
    ELSE IF get_symbol(sl, Head(idx), r.name) # None
    THEN [r EXCEPT !.state = "resolved", !.resolvedby = get_symbol(sl, Head(idx), r.name)]
    ELSE base_resolve_symbol(r, sl, Tail(idx))

\* [x for x in solist if self.resolvewith == x.provides], as the positions
\* in sl from i on
RECURSIVE ProvidedBy(_, _, _)
ProvidedBy(sl, i, resolvewith) ==
    IF i > Len(sl) THEN <<>>
    ELSE IF resolvewith = sl[i].provides THEN <<i>> \o ProvidedBy(sl, i + 1, resolvewith)
    ELSE ProvidedBy(sl, i + 1, resolvewith)

\* solist itself, as positions in sl
Positions(sl) == [i \in 1..Len(sl) |-> i]

\* WinReloc.resolve_symbol(solist, bypass_compatibility)
ResolveSymbolUnfiltered(r, sl, bypass_compatibility) ==
    base_resolve_symbol(r, sl, Positions(sl))

WinReloc_resolve_symbol(r, sl, bypass_compatibility) ==
    IF ~bypass_compatibility
    THEN base_resolve_symbol(r, sl, ProvidedBy(sl, 1, r.resolvewith))
    ELSE base_resolve_symbol(r, sl, Positions(sl))

\* Relocation.resolved
resolved(r) == r.state = "resolved"

\* WinSymbol.rebased_addr: AT.from_rva(self.addr, self.owner_obj).to_mva()
RebasedAddrAsLva(sl, symbol) == lva_to_mva(symbol.addr, sl[symbol.owner])

RebasedAddrOnImporter(sl, symbol) ==
    rva_to_mva(symbol.addr, [linked_base |-> DefaultBase, mapped_base |-> DefaultBase])

WinSymbol_rebased_addr(sl, symbol) == rva_to_mva(symbol.addr, sl[symbol.owner])

\* WinReloc.value
WinReloc_value(r, sl) ==
    IF resolved(r) THEN Some(WinSymbol_rebased_addr(sl, r.resolvedby[1])) ELSE None

\* A call of reloc.resolve_symbol(solist, bypass_compatibility)
resolve_symbol(bypass_compatibility) ==
    /\ Len(calls) < MaxResolves
    /\ reloc' = WinReloc_resolve_symbol(reloc, solist, bypass_compatibility)
    /\ calls' = Append(calls, bypass_compatibility)
    /\ UNCHANGED <<solist, placeVars, relocVars, scanVars, tlsVars>>

InitResolve ==
    /\ \E n \in 0..MaxCandidates : solist \in Solists(n)
    /\ \E name \in Names, dll \in Dlls : reloc = WinReloc(name, dll)
    /\ calls = <<>>
    /\ IdlePlace
    /\ IdleReloc
    /\ IdleScan
    /\ IdleTls

NextResolve == \E bypass \in BOOLEAN : resolve_symbol(bypass)

SpecResolve == InitResolve /\ [][NextResolve]_vars

\* The step is a resolve_symbol call, and this is its flag.
Resolving == Len(calls') = Len(calls) + 1
ThisBypass == calls'[Len(calls')]

\* The candidates that export the relocation's name.
Exporters == {i \in 1..Len(solist) : reloc.name \in DOMAIN solist[i].exports}

\* C3: a resolve_symbol call without bypass never resolves the relocation
\* against an object whose provides differs from resolvewith; a call with
\* bypass searches every candidate, so it resolves whenever any exports the
\* name.
ProviderConstraint ==
    [][Resolving =>
        IF ThisBypass
        THEN resolved(reloc') <=> Exporters # {}
        ELSE resolved(reloc') =>
                solist[reloc'.resolvedby[1].owner].provides = reloc.resolvewith]_vars

\* C3 witness: a call without bypass has just failed although a candidate
\* with another provides exports the very name.
ProviderConstraintWitness ==
    /\ Len(calls) = 1 /\ ~calls[1]
    /\ reloc.state = "failed"
    /\ \E i \in Exporters : solist[i].provides # reloc.resolvewith /\ solist[i].provides # NoName

\* The candidates the last call searched: those passing the provider filter.
Passing ==
    {i \in 1..Len(solist) : calls[Len(calls)] \/ solist[i].provides = reloc.resolvewith}

First(S) == CHOOSE i \in S : \A j \in S : i <= j

\* C5: after a call, the relocation is resolved iff a candidate passing the
\* filter exports the name; it is then bound to the export of the first such
\* candidate and its value is that candidate's mapped_base plus the export's
\* RVA; otherwise its value is None.
FirstMatchValue ==
    Len(calls) > 0 =>
        IF Passing \cap Exporters = {}
        THEN ~resolved(reloc) /\ WinReloc_value(reloc, solist) = None
        ELSE LET i == First(Passing \cap Exporters)
             IN  /\ resolved(reloc)
                 /\ reloc.resolvedby[1].owner = i
                 /\ reloc.resolvedby[1].name = reloc.name
                 /\ reloc.resolvedby[1].addr = solist[i].exports[reloc.name]
                 /\ WinReloc_value(reloc, solist) # None
                 /\ WinReloc_value(reloc, solist)[1].carry = 0
                 /\ WinReloc_value(reloc, solist)[1].limbs
                      = [solist[i].mapped_base EXCEPT ![1] = solist[i].exports[reloc.name][1]]

\* C5 witness: two candidates that pass the filter export the name at
\* different RVAs, and the relocation is resolved.
FirstMatchValueWitness ==
    /\ Len(calls) > 0
    /\ resolved(reloc)
    /\ Cardinality(Passing \cap Exporters) > 1
    /\ \E j \in Passing \cap Exporters :
          solist[j].exports[reloc.name] # reloc.resolvedby[1].addr

(***************************************************************************)
(* Part 4: PE._handle_relocs, the scan of the base-relocation table.       *)
(***************************************************************************)
MaxBlocks == 2      \* the table has at most this many blocks
MaxEntries == 3     \* a block has at most this many entries

\* The types the entries of a block are drawn from.
EntryTypes ==
    {IMAGE_REL_BASED_ABSOLUTE, IMAGE_REL_BASED_HIGHLOW, IMAGE_REL_BASED_HIGHADJ}

\* pefile gives every entry its type and its RVA: the block's page plus the
\* entry's offset.  Entry i (0-based) of block b sits at offset 4 * i here, so
\* that no two entries share an RVA.
EntryRva(b, i) == 4096 * b + 4 * i

\* The blocks of n entries of block number b
Blocks(b, n) ==
    { [i \in 1..n |-> [type |-> ty[i], rva |-> EntryRva(b, i - 1)]] :
        ty \in [1..n -> EntryTypes] }

\* The tables of n blocks
RECURSIVE Tables(_)
Tables(n) ==
    IF n = 0 THEN {<<>>}
    ELSE { Append(t, blk) : t \in Tables(n - 1),
                            blk \in UNION { Blocks(n, k) : k \in 0..MaxEntries } }

\* base_reloc.entries[i], i counted from 0 as in the code
Entry(i) == table[block_idx][i + 1]

\* WinReloc(self, None, addr, None, reloc_type=..., next_rva=...)
BaseReloc(addr, reloc_type, next_rva) ==
    [addr |-> addr, reloc_type |-> reloc_type, next_rva |-> next_rva]

\* One iteration of the while loop of _handle_relocs.
scan_entry ==
    /\ block_idx <= Len(table)
    /\ entry_idx < Len(table[block_idx])
    /\ LET reloc_data == Entry(entry_idx)
       IN  IF reloc_data.type = IMAGE_REL_BASED_HIGHADJ
           THEN IF entry_idx = Len(table[block_idx])
                THEN \* warning and break: on to the next block
                     /\ warned' = TRUE
                     /\ block_idx' = block_idx + 1
                     /\ entry_idx' = 0
                     /\ UNCHANGED relocs
                ELSE LET next_entry == Entry(entry_idx)
                     IN  /\ relocs' = Append(relocs,
                                BaseReloc(reloc_data.rva, reloc_data.type, Some(next_entry.rva)))
                         /\ entry_idx' = entry_idx + 1 + 1
                         /\ UNCHANGED <<block_idx, warned>>
           ELSE /\ relocs' = Append(relocs, BaseReloc(reloc_data.rva, reloc_data.type, None))
                /\ entry_idx' = entry_idx + 1
                /\ UNCHANGED <<block_idx, warned>>
    /\ UNCHANGED <<table, placeVars, relocVars, resolveVars, tlsVars>>

\* The while loop ends (entry_idx < len fails) and the for loop goes on to
\* the next block, with entry_idx = 0.
next_block ==
    /\ block_idx <= Len(table)
    /\ ~(entry_idx < Len(table[block_idx]))
    /\ block_idx' = block_idx + 1
    /\ entry_idx' = 0
    /\ UNCHANGED <<table, relocs, warned, placeVars, relocVars, resolveVars, tlsVars>>

InitScan ==
    /\ \E n \in 0..MaxBlocks : table \in Tables(n)
    /\ block_idx = 1
    /\ entry_idx = 0
    /\ relocs = <<>>
    /\ warned = FALSE
    /\ IdlePlace
    /\ IdleReloc
    /\ IdleResolve
    /\ IdleTls

NextScan == scan_entry \/ next_block

SpecScan == InitScan /\ [][NextScan]_vars

\* The step is an iteration of the while loop on entry number entry_idx.
ScanStep == block_idx <= Len(table) /\ entry_idx < Len(table[block_idx])

\* C8: a HIGHADJ entry i followed by an entry i+1 in its block yields one
\* Relocation at entry i's RVA whose next_rva is entry i+1's RVA, and the scan
\* resumes at i+2; any other entry yields one Relocation and the scan
\* advances by one.
HighadjTakesNextEntry ==
    [][ScanStep =>
        IF Entry(entry_idx).type = IMAGE_REL_BASED_HIGHADJ
        THEN entry_idx + 1 < Len(table[block_idx]) =>
                /\ relocs' = Append(relocs,
                        BaseReloc(Entry(entry_idx).rva, IMAGE_REL_BASED_HIGHADJ,
                                  Some(Entry(entry_idx + 1).rva)))
                /\ entry_idx' = entry_idx + 2
                /\ block_idx' = block_idx
        ELSE /\ Len(relocs') = Len(relocs) + 1
             /\ relocs'[Len(relocs')].addr = Entry(entry_idx).rva
             /\ relocs'[Len(relocs')].reloc_type = Entry(entry_idx).type
             /\ entry_idx' = entry_idx + 1
             /\ block_idx' = block_idx]_vars

\* C9: when a HIGHADJ entry is the last of its block, the scan of that block
\* stops with the warning and without a Relocation for that entry.
TruncatedHighadjStops ==
    [][(ScanStep /\ Entry(entry_idx).type = IMAGE_REL_BASED_HIGHADJ
                 /\ entry_idx + 1 = Len(table[block_idx]))
        => /\ relocs' = relocs
           /\ warned'
           /\ block_idx' = block_idx + 1]_vars

(***************************************************************************)
(* Part 5: PE._register_tls_callbacks.                                     *)
(*                                                                         *)
(* The callback array is an array of pointers: 4 bytes each in a 32-bit    *)
(* image, 8 bytes each (PE32+) in a 64-bit one.  A pointer is written as   *)
(* its two dwords, lo and hi (hi = 0 in a 32-bit image), and the image as  *)
(* one dword per 4-byte aligned RVA, which is all get_dword_at_rva is      *)
(* asked for here.                                                         *)
(***************************************************************************)
MaxCallbacks == 3   \* the array holds at most this many callbacks

\* Callback pointers: 0x00401000, 0x00402000 and, in a 64-bit image,
\* 0x1_4000_1000 as well.
Pointers(bits) ==
    { [lo |-> 4198400, hi |-> 0], [lo |-> 4202496, hi |-> 0] }
    \cup (IF bits = 64 THEN { [lo |-> 1073745920, hi |-> 1] } ELSE {})

NullPointer == [lo |-> 0, hi |-> 0]

\* The word after the terminator: not part of the array.
StrayPointer == [lo |-> 57005, hi |-> 48879]

\* Where the array starts in the image, and the image's link base.
ArrayRva == 2 * 4096
TlsLinkedBase == 1024 * 4096

\* The bytes a pointer takes.
PointerSize(bits) == bits \div 8

\* The dwords of an array of pointers, in memory order (little-endian: lo
\* first).
RECURSIVE Dwords(_, _)
Dwords(ptrs, bits) ==
    IF ptrs = <<>> THEN <<>>
    ELSE (IF bits = 64 THEN <<Head(ptrs).lo, Head(ptrs).hi>> ELSE <<Head(ptrs).lo>>)
         \o Dwords(Tail(ptrs), bits)

\* The TLS directory of an image: the callbacks, then the NULL terminator,
\* then a word that is not part of the array.
TlsImage(bits, cbs) ==
    [bits |-> bits,
     array |-> cbs,
     AddressOfCallBacks |-> TlsLinkedBase + ArrayRva,
     dwords |-> Dwords(cbs \o <<NullPointer, StrayPointer>>, bits)]

\* The arrays of n callbacks
RECURSIVE Arrays(_, _)
Arrays(bits, n) ==
    IF n = 0 THEN {<<>>}
    ELSE { Append(a, ptr) : a \in Arrays(bits, n - 1), ptr \in Pointers(bits) }

\* AT.from_lva(addr, self).to_rva()
lva_to_rva(lva, linked_base) == lva - linked_base

\* self._pe.get_dword_at_rva(rva)
get_dword_at_rva(image, rva) == image.dwords[(rva - ArrayRva) \div 4 + 1]

\* _register_tls_callbacks up to the while loop: the first read.
tls_begin ==
    /\ tls_pc = "start"
    /\ callbacks' = <<>>
    /\ callback_rva' = lva_to_rva(tls.AddressOfCallBacks, TlsLinkedBase)
    /\ callback' = get_dword_at_rva(tls, callback_rva')
    /\ reads' = reads \cup {callback_rva'}
    /\ tls_pc' = "loop"
    /\ UNCHANGED <<tls, placeVars, relocVars, resolveVars, scanVars>>

\* One iteration of the while loop.
tls_loop ==
    /\ tls_pc = "loop"
    /\ callback # 0
    /\ callbacks' = Append(callbacks, callback)
    /\ callback_rva' = callback_rva + 4
    /\ callback' = get_dword_at_rva(tls, callback_rva')
    /\ reads' = reads \cup {callback_rva'}
    /\ UNCHANGED <<tls, tls_pc, placeVars, relocVars, resolveVars, scanVars>>

\* The loop ends on a zero dword: return callbacks.
tls_return ==
    /\ tls_pc = "loop"
    /\ callback = 0
    /\ tls_pc' = "done"
    /\ UNCHANGED <<tls, callback_rva, callback, callbacks, reads,
                   placeVars, relocVars, resolveVars, scanVars>>

InitTls ==
    /\ \E bits \in {32, 64}, n \in 0..MaxCallbacks :
          \E cbs \in Arrays(bits, n) : tls = TlsImage(bits, cbs)
    /\ tls_pc = "start"
    /\ callback_rva = 0
    /\ callback = 0
    /\ callbacks = <<>>
    /\ reads = {}
    /\ IdlePlace
    /\ IdleReloc
    /\ IdleResolve
    /\ IdleScan

NextTls == tls_begin \/ tls_loop \/ tls_return

SpecTls == InitTls /\ [][NextTls]_vars

\* The RVA of the last byte of the terminator word.
TerminatorEnd == ArrayRva + (Len(tls.array) + 1) * PointerSize(tls.bits) - 1

\* C6: the list returned holds exactly the pointers before the terminator,
\* in array order, and no read went past the terminator.
CallbacksUpToTerminator ==
    tls_pc = "done" =>
        /\ Len(callbacks) = Len(tls.array)
        /\ \A i \in 1..Len(tls.array) :
              tls.array[i].hi = 0 /\ callbacks[i] = tls.array[i].lo
        /\ \A rva \in reads : rva + 3 <= TerminatorEnd

====
